---- MODULE Spec2Model ----
(***************************************************************************)
(* Model of the builtin event-source instances of plugin-sdk-go            *)
(* (package source): the shared builtinInstance state (lifetime context,   *)
(* recurring timeout ticker, eof latch, shutdown callback) and the two     *)
(* NextBatch implementations, pullInstance.NextBatch and                   *)
(* pushInstance.NextBatch.                                                 *)
(*                                                                         *)
(* One behaviour follows one instance, from the call of its constructor.   *)
(* `kind` says whether that is NewPullInstance or NewPushInstance.         *)
(* Time is not measured: the                                               *)
(* action Tick is the ticker's period elapsing, which can happen at any    *)
(* moment while the ticker is armed.                                       *)
(* The host calls NextBatch sequentially; the sender of the push channel,  *)
(* the owner of the user context, Close() and the clock run concurrently   *)
(* with a call in flight.                                                  *)
(***************************************************************************)
EXTENDS Integers, Sequences, FiniteSets, TLC

\* ---------------------------------------------------------------- bounds
\* number of slots of the batch (WithInstanceBatchSize)
BatchSize == 3
\* capacity of the push channel evtC (chosen by whoever makes the channel)
ChanCap == 1
\* width in bits of the modelled slot timestamp (uint64 in the code)
TsWidth == 3

\* ------------------------------------------------------- error values
Nil == "nil"
ErrEOF == "ErrEOF"
ErrTimeout == "ErrTimeout"
ErrShortWrite == "ErrShortWrite"
\* any other error value a producer or a writer may return
ErrOther == "ErrOther"

Errors == {ErrEOF, ErrTimeout, ErrOther}

\* math.MaxUint64 at the modelled width
MaxUint64 == 2^TsWidth - 1

\* uint64(x) at the modelled width
ToUint64(x) == x % (2^TsWidth)

\* time.Time values: the zero value, and instants given by their UnixNano
ZeroTime == [zero |-> TRUE, nano |-> 0]
Instant(k) == [zero |-> FALSE, nano |-> k]

\* the payloads a producer hands over (two, to tell events apart)
Payloads == {1, 2}
\* a slot whose byte sink took only part of a payload
Partial == -1
EmptySlot == [data |-> 0, ts |-> 0]

\* PushEvent: Err, Data, Timestamp.  Data is nil (0) when Err is set.  The
\* events the producer sends: payload 1 comes without a timestamp, every other
\* payload d with the instant d.
PushEvent ==
    {[Err |-> Nil, Data |-> d, Timestamp |-> IF d = 1 THEN ZeroTime ELSE Instant(d)] :
        d \in Payloads}
        \cup [Err : Errors, Data : {0}, Timestamp : {ZeroTime}]

\* the sizes the options can leave in batchSize and eventSize (uint32): zero,
\* which the allocator of the batch rejects, or a size it accepts
BatchSizes == {0, BatchSize}
EventSizes == {0, 1}

\* what Writer().Write(evt.Data) can answer: all bytes, fewer bytes, an error
WriteOutcomes == {"full", "short", "error"}

VARIABLES
    kind,           \* "pull" or "push": which constructor built the instance
    batchSize,      \* builtinInstance.batchSize after the options were applied
    eventSize,      \* builtinInstance.eventSize after the options were applied
    ctxDerived,     \* context.WithCancel(res.ctx) was called: the derived context exists
    asyncTimerChan, \* build: TRUE = buffered timer channel (GODEBUG asynctimerchan=1,
                    \* every Go before 1.23), FALSE = Reset/Stop discard a pending tick
    eof,            \* builtinInstance.eof
    userCtxDone,    \* the context given by WithInstanceContext is cancelled
    cancelled,      \* cancelCtx() of the derived context was called
    closed,         \* Close() has run to its end
    shutdownCalled, \* the callback given by WithInstanceClose was invoked
    tickerRunning,  \* timeoutTicker is armed
    tickerC,        \* ticks buffered in timeoutTicker.C (0 or 1)
    tickStale,      \* the buffered tick was produced before the latest Reset, and the
                    \* ticker has not fired since
    pc,             \* position of the host: new (the constructor is yet to run), failed
                    \* (it returned an error and no instance), then idle, or inside
                    \* NextBatch at select, pull or wait
    n,              \* local n of the call in flight
    slots,          \* the batch: slot i of the code is slots[i + 1]; <<>> before
                    \* the batch is allocated
    evtC,           \* messages buffered in the push channel
    chanClosed,     \* the push channel was closed by its sender
    lastResult,     \* what the latest NextBatch call returned, and why; NoResult
                    \* while a call is in flight
    callLog,        \* payloads placed by the current (or latest) call, in order
    eofReturned,    \* some call returned ErrEOF
    errReturned,    \* some call returned an error other than ErrTimeout and ErrEOF
    timeoutReturned, \* some call returned ErrTimeout
    owed            \* what the open source owes the host: the payloads of the messages
                    \* without error that were sent and were not yet part of a
                    \* returned batch, in the order of sending; empty once eof is set

vars == <<kind, batchSize, eventSize, ctxDerived, asyncTimerChan, eof,
          userCtxDone, cancelled, closed, shutdownCalled,
          tickerRunning, tickerC, tickStale, pc, n, slots, evtC,
          chanClosed, lastResult, callLog, eofReturned, errReturned, timeoutReturned, owed>>

ctxVars == <<userCtxDone, cancelled, closed, shutdownCalled>>
tickerVars == <<tickerRunning, tickerC, tickStale>>
chanVars == <<evtC, chanClosed>>
\* what does not change once the constructor has returned
buildVars == <<kind, batchSize, eventSize, ctxDerived, asyncTimerChan>>

Causes == {"none", "latched", "full", "timer", "ctx", "pull", "msg", "closed", "write"}

NoResult == [n |-> 0, err |-> Nil, cause |-> "none"]

\* s.ctx left to be the context of the options, which Close() does not cancel
CtxDoneUserOnly == userCtxDone

\* s.ctx.Done() is closed: the derived context is cancelled by its own cancel
\* function or through its parent
CtxDone == cancelled \/ userCtxDone

\* ------------------------------------------------------------- Init
\* the constructor is about to run: the options are applied, nothing is
\* allocated, started or derived yet
Init ==
    /\ kind \in {"pull", "push"}
    /\ batchSize \in BatchSizes
    /\ eventSize \in EventSizes
    /\ ctxDerived = FALSE
    /\ asyncTimerChan \in BOOLEAN
    /\ eof = FALSE
    /\ userCtxDone = FALSE
    /\ cancelled = FALSE
    /\ closed = FALSE
    /\ shutdownCalled = FALSE
    /\ tickerRunning = FALSE
    /\ tickerC = 0
    /\ tickStale = FALSE
    /\ pc = "new"
    /\ n = 0
    /\ slots = <<>>
    /\ evtC = <<>>
    /\ chanClosed = FALSE
    /\ lastResult = NoResult
    /\ callLog = <<>>
    /\ eofReturned = FALSE
    /\ errReturned = FALSE
    /\ timeoutReturned = FALSE
    /\ owed = <<>>

\* --------------------------------------------------- the constructors
\* sdk.NewEventWriters(size, dataSize) returns an error
NewEventWritersFails(size, dataSize) == size <= 0 \/ dataSize <= 0

\* the ticker and the derived context made before the batch is allocated
ReachedAfterAllocAlways(failed) == TRUE

\* the statements after `if err != nil { return nil, err }` run only when the
\* allocation succeeded: time.NewTicker, context.WithCancel, the composition of
\* res.shutdown
ReachedAfterAlloc(failed) == ~failed

\* NewPullInstance / NewPushInstance
New ==
    /\ pc = "new"
    /\ LET failed == NewEventWritersFails(batchSize, eventSize)
       IN /\ pc' = IF failed THEN "failed" ELSE "idle"
          /\ slots' = IF failed THEN slots ELSE [i \in 1..batchSize |-> EmptySlot]
          /\ tickerRunning' = ReachedAfterAlloc(failed)
          /\ ctxDerived' = ReachedAfterAlloc(failed)
    /\ UNCHANGED <<kind, batchSize, eventSize, asyncTimerChan, eof, ctxVars,
                   tickerC, tickStale, n, chanVars,
                   lastResult, callLog, eofReturned, errReturned, timeoutReturned, owed>>

\* the constructor returned an instance
Built == pc \notin {"new", "failed"}

\* ------------------------------------------------------- the ticker
\* what timeoutTicker.Reset leaves in the channel: a build with the buffered
\* timer channel keeps a tick that is already there, the other one drops it
TickerResetC == IF asyncTimerChan THEN tickerC ELSE 0

\* what timeoutTicker.Stop leaves in the channel (same rule as Reset)
TickerStopC == IF asyncTimerChan THEN tickerC ELSE 0

\* s.timeoutTicker.Reset(s.timeout): re-arm for a full period
TickerReset ==
    /\ tickerRunning' = TRUE
    /\ tickerC' = TickerResetC
    /\ tickStale' = (TickerResetC = 1)

\* case <-s.timeoutTicker.C: take the buffered tick
TickerReceive ==
    /\ tickerC = 1
    /\ tickerC' = 0
    /\ tickStale' = FALSE
    /\ UNCHANGED tickerRunning

\* The ticker's period elapses: a running ticker sends a tick to the one-place
\* buffer of its channel; the tick is dropped when the buffer is full.  How long
\* a period is, measured in steps of the rest of the system, is left open.
Tick ==
    /\ tickerRunning
    /\ tickerC' = 1
    /\ tickStale' = FALSE
    /\ UNCHANGED <<buildVars, eof, ctxVars, tickerRunning, pc, n, slots, chanVars,
                   lastResult, callLog, eofReturned, errReturned, timeoutReturned, owed>>

\* ------------------------------------------------- context and Close
\* the owner of the context given by WithInstanceContext cancels it
CancelUserCtx ==
    /\ ~userCtxDone
    /\ userCtxDone' = TRUE
    /\ UNCHANGED <<buildVars, eof, cancelled, closed, shutdownCalled, tickerVars, pc, n,
                   slots, chanVars, lastResult, callLog,
                   eofReturned, errReturned, timeoutReturned, owed>>

\* the composed shutdown function with its two calls the other way round
ShutdownStepsSwapped == <<"prevCancel", "cancelCtx">>

\* the shutdown function composed by the constructors,
\* `func() { cancelCtx(); prevCancel() }`: its calls, in order
ShutdownSteps == <<"cancelCtx", "prevCancel">>

\* Close() has got past the call op of the composed shutdown function
ShutdownStepDone(op) == IF op = "cancelCtx" THEN cancelled ELSE shutdownCalled

\* builtinInstance.Close, `s.shutdown()`: the i-th call of the composed
\* function; cancelCtx cancels the derived context, prevCancel is the callback
\* given by WithInstanceClose (func() {} when none was given)
CloseShutdown(i) ==
    /\ Built
    /\ ~ShutdownStepDone(ShutdownSteps[i])
    /\ \A j \in 1..(i - 1) : ShutdownStepDone(ShutdownSteps[j])
    /\ cancelled' = (cancelled \/ ShutdownSteps[i] = "cancelCtx")
    /\ shutdownCalled' = (shutdownCalled \/ ShutdownSteps[i] = "prevCancel")
    /\ UNCHANGED <<buildVars, eof, userCtxDone, closed, tickerVars, pc, n, slots, chanVars,
                   lastResult, callLog,
                   eofReturned, errReturned, timeoutReturned, owed>>

\* builtinInstance.Close, `s.timeoutTicker.Stop()`, after s.shutdown() returned
CloseStop ==
    /\ ~closed
    /\ \A i \in DOMAIN ShutdownSteps : ShutdownStepDone(ShutdownSteps[i])
    /\ closed' = TRUE
    /\ tickerRunning' = FALSE
    /\ tickerC' = TickerStopC
    /\ tickStale' = (tickStale /\ TickerStopC = 1)
    /\ UNCHANGED <<buildVars, eof, userCtxDone, cancelled, shutdownCalled, pc, n, slots,
                   chanVars, lastResult, callLog,
                   eofReturned, errReturned, timeoutReturned, owed>>

\* builtinInstance.Close, called once by the framework; it runs concurrently
\* with whatever else goes on
Close ==
    \/ \E i \in DOMAIN ShutdownSteps : CloseShutdown(i)
    \/ CloseStop

\* ------------------------------------------------ the push channel
\* the producer side sends a PushEvent on the channel
Send(m) ==
    /\ kind = "push"
    /\ ~chanClosed
    /\ Len(evtC) < ChanCap
    /\ evtC' = Append(evtC, m)
    /\ owed' = IF m.Err = Nil /\ ~eof THEN Append(owed, m.Data) ELSE owed
    /\ UNCHANGED <<buildVars, eof, ctxVars, tickerVars, pc, n, slots, chanClosed,
                   lastResult, callLog,
                   eofReturned, errReturned, timeoutReturned>>

\* the producer side closes the channel; buffered messages stay receivable
CloseChan ==
    /\ kind = "push"
    /\ ~chanClosed
    /\ chanClosed' = TRUE
    /\ UNCHANGED <<buildVars, eof, ctxVars, tickerVars, pc, n, slots, evtC,
                   lastResult, callLog,
                   eofReturned, errReturned, timeoutReturned, owed>>

\* ------------------------------------------------------- NextBatch
\* `return k, e` of NextBatch; c records which statement returned.  The k
\* events of the batch are no longer owed, and a closed source owes nothing.
Return(k, e, c) ==
    /\ lastResult' = [n |-> k, err |-> e, cause |-> c]
    /\ pc' = "idle"
    /\ n' = 0
    /\ eofReturned' = (eofReturned \/ e = ErrEOF)
    /\ errReturned' = (errReturned \/ e \notin {Nil, ErrTimeout, ErrEOF})
    /\ timeoutReturned' = (timeoutReturned \/ e = ErrTimeout)
    /\ owed' = IF eof' THEN <<>> ELSE SubSeq(owed, k + 1, Len(owed))

\* the call goes on to position p without returning
Goto(p, k) ==
    /\ pc' = p
    /\ n' = k
    /\ UNCHANGED <<lastResult, eofReturned, errReturned, timeoutReturned, owed>>

\* `if s.eof { return 0, sdk.ErrEOF }`
EofShortCircuit == eof

\* the loop leaving one slot early
LoopContinuesShort(k) == k < BatchSize - 1

\* `for n < evts.Len()`
LoopContinues(k) == k < BatchSize

\* the test of the pull path inverted
PullErrLatchesInverted(e) == e = ErrTimeout

\* `if err != sdk.ErrTimeout { s.eof = true }` of the pull path
PullErrLatches(e) == e # ErrTimeout

\* the push path latching on every error, ErrTimeout included
PushErrLatchesAlways(e) == TRUE

\* the push path taking a short write for recoverable, like a timeout
PushErrLatchesNotShortWrite(e) == e \notin {ErrTimeout, ErrShortWrite}

\* the push path latching on ErrEOF alone
PushErrLatchesEofOnly(e) == e = ErrEOF

\* `if evt.Err != sdk.ErrTimeout { s.eof = true }` of the push path
PushErrLatches(e) == e # ErrTimeout

\* the context case returning without setting eof
DoneLatchesNot == FALSE

\* `s.eof = true` of `case <-s.ctx.Done()`
DoneLatches == TRUE

\* default taken without looking at the context
NoCaseReadyIgnoresCtx == tickerC = 0

\* `default:` of the select is taken only when neither receive case is ready
NoCaseReady == tickerC = 0 /\ ~CtxDone

\* the timer case closing the source like the context case
TimerLatchesToo == TRUE

\* `case <-s.timeoutTicker.C: return n, sdk.ErrTimeout` leaves eof alone
TimerLatches == FALSE

\* every event written to the first slot
SlotOfFirst(k) == 1

\* slots filled from the far end of the batch
SlotOfReversed(k) == BatchSize - k

\* the slot index evts.Get(n), as an index of slots
SlotOf(k) == k + 1

\* the timestamp converted without the IsZero test
SlotTimestampNoSentinel(t) == ToUint64(t.nano)

\* the value given to SetTimestamp for a message's Timestamp
SlotTimestamp(t) == IF t.zero THEN MaxUint64 ELSE ToUint64(t.nano)

\* entry of either NextBatch: the eof short circuit, the ticker reset, n = 0
Enter(p) ==
    /\ pc = "idle"
    /\ callLog' = <<>>
    /\ UNCHANGED eof
    /\ IF EofShortCircuit
       THEN /\ Return(0, ErrEOF, "latched")
            /\ UNCHANGED tickerVars
       ELSE /\ TickerReset
            /\ pc' = p
            /\ n' = 0
            /\ lastResult' = NoResult
            /\ UNCHANGED <<eofReturned, errReturned, timeoutReturned, owed>>
    /\ UNCHANGED <<buildVars, ctxVars, slots, chanVars>>

PullEnter == kind = "pull" /\ Enter("select")

PushEnter == kind = "push" /\ Enter("wait")

\* ---------------------------------------------- pullInstance.NextBatch
\* the non-blocking select before each pull: the timer case
PullSelectTimer ==
    /\ kind = "pull" /\ pc = "select"
    /\ TickerReceive
    /\ eof' = (eof \/ TimerLatches)
    /\ Return(n, ErrTimeout, "timer")
    /\ UNCHANGED <<buildVars, ctxVars, slots, chanVars, callLog>>

\* the non-blocking select before each pull: the context case
PullSelectDone ==
    /\ kind = "pull" /\ pc = "select"
    /\ CtxDone
    /\ eof' = (eof \/ DoneLatches)
    /\ Return(n, ErrEOF, "ctx")
    /\ UNCHANGED <<buildVars, ctxVars, tickerVars, slots, chanVars, callLog>>

\* the non-blocking select before each pull: default, taken when no case is ready
PullSelectDefault ==
    /\ kind = "pull" /\ pc = "select"
    /\ NoCaseReady
    /\ Goto("pull", n)
    /\ UNCHANGED <<buildVars, eof, ctxVars, tickerVars, slots, chanVars, callLog>>

\* s.pull(s.ctx, evts.Get(n)) returns nil after writing payload d
PullOk(d) ==
    /\ kind = "pull" /\ pc = "pull"
    /\ slots' = [slots EXCEPT ![SlotOf(n)].data = d]
    /\ callLog' = Append(callLog, d)
    /\ UNCHANGED eof
    /\ IF LoopContinues(n + 1)
       THEN Goto("select", n + 1)
       ELSE Return(n + 1, Nil, "full")
    /\ UNCHANGED <<buildVars, ctxVars, tickerVars, chanVars>>

\* s.pull(s.ctx, evts.Get(n)) returns the error e; it may have written part of
\* the slot before failing
PullErr(e, wrote) ==
    /\ kind = "pull" /\ pc = "pull"
    /\ slots' = IF wrote THEN [slots EXCEPT ![SlotOf(n)].data = Partial] ELSE slots
    /\ eof' = (eof \/ PullErrLatches(e))
    /\ Return(n, e, "pull")
    /\ UNCHANGED <<buildVars, ctxVars, tickerVars, chanVars, callLog>>

\* ---------------------------------------------- pushInstance.NextBatch
\* evt.Err after `if !ok { evt.Err = sdk.ErrEOF }`
RecvErr == IF evtC # <<>> THEN Head(evtC).Err ELSE ErrEOF

\* the short-write test left out: fewer bytes accepted passes for a whole write
WriteErrShortPasses(w) ==
    CASE w = "full" -> Nil
      [] w = "short" -> Nil
      [] w = "error" -> ErrOther

\* evt.Err after the write of evt.Data with outcome w
WriteErr(w) ==
    CASE w = "full" -> Nil
      [] w = "short" -> ErrShortWrite
      [] w = "error" -> ErrOther

\* `case evt, ok := <-s.evtC` where the message ends up with an error:
\* carried by it, synthesized from the closure, or from the write
PushRecvErr(w) ==
    /\ kind = "push" /\ pc = "wait"
    /\ evtC # <<>> \/ chanClosed
    /\ IF RecvErr = Nil THEN w # "full" ELSE w = "full"
    /\ LET err == IF RecvErr = Nil THEN WriteErr(w) ELSE RecvErr
           cause == IF RecvErr # Nil THEN (IF evtC = <<>> THEN "closed" ELSE "msg")
                    ELSE "write"
       IN /\ slots' = IF w = "short"
                      THEN [slots EXCEPT ![SlotOf(n)].data = Partial]
                      ELSE slots
          /\ eof' = (eof \/ PushErrLatches(err))
          /\ Return(n, err, cause)
    /\ evtC' = IF evtC # <<>> THEN Tail(evtC) ELSE evtC
    /\ UNCHANGED <<buildVars, ctxVars, tickerVars, chanClosed, callLog>>

\* `case evt, ok := <-s.evtC` where the message is written to the slot whole
PushRecvOk ==
    /\ kind = "push" /\ pc = "wait"
    /\ evtC # <<>>
    /\ Head(evtC).Err = Nil
    /\ LET evt == Head(evtC)
       IN /\ slots' = [slots EXCEPT ![SlotOf(n)] =
                          [data |-> evt.Data, ts |-> SlotTimestamp(evt.Timestamp)]]
          /\ callLog' = Append(callLog, evt.Data)
    /\ evtC' = Tail(evtC)
    /\ UNCHANGED eof
    /\ IF LoopContinues(n + 1)
       THEN Goto("wait", n + 1)
       ELSE Return(n + 1, Nil, "full")
    /\ UNCHANGED <<buildVars, ctxVars, tickerVars, chanClosed>>

\* `case <-s.timeoutTicker.C` of the blocking select
PushSelectTimer ==
    /\ kind = "push" /\ pc = "wait"
    /\ TickerReceive
    /\ eof' = (eof \/ TimerLatches)
    /\ Return(n, ErrTimeout, "timer")
    /\ UNCHANGED <<buildVars, ctxVars, slots, chanVars, callLog>>

\* `case <-s.ctx.Done()` of the blocking select
PushSelectDone ==
    /\ kind = "push" /\ pc = "wait"
    /\ CtxDone
    /\ eof' = (eof \/ DoneLatches)
    /\ Return(n, ErrEOF, "ctx")
    /\ UNCHANGED <<buildVars, ctxVars, tickerVars, slots, chanVars, callLog>>

\* ------------------------------------------------------------ Next
Next ==
    \/ New
    \/ Tick
    \/ CancelUserCtx
    \/ Close
    \/ \E m \in PushEvent : Send(m)
    \/ CloseChan
    \/ PullEnter
    \/ PullSelectTimer
    \/ PullSelectDone
    \/ PullSelectDefault
    \/ \E d \in Payloads : PullOk(d)
    \/ \E e \in Errors, wrote \in BOOLEAN : PullErr(e, wrote)
    \/ PushEnter
    \/ \E w \in WriteOutcomes : PushRecvErr(w)
    \/ PushRecvOk
    \/ PushSelectTimer
    \/ PushSelectDone

Spec == Init /\ [][Next]_vars

\* ------------------------------------------- the push instance, with progress
\* what can happen to an instance built by NewPushInstance
PushNext ==
    \/ New
    \/ Tick
    \/ CancelUserCtx
    \/ Close
    \/ \E m \in PushEvent : Send(m)
    \/ CloseChan
    \/ PushEnter
    \/ \E w \in WriteOutcomes : PushRecvErr(w)
    \/ PushRecvOk
    \/ PushSelectTimer
    \/ PushSelectDone

\* NewPushInstance is the constructor about to run
PushInit == Init /\ kind = "push"

\* the blocking select of pushInstance.NextBatch takes one of its ready cases
PushSelect ==
    \/ \E w \in WriteOutcomes : PushRecvErr(w)
    \/ PushRecvOk
    \/ PushSelectTimer
    \/ PushSelectDone

\* A goroutine blocked in a select is woken up once a case is ready and stays
\* ready, and an armed ticker fires when its period has elapsed.  Nothing is
\* assumed of the sender, of the owner of the user context, or of Close().
PushLiveSpec ==
    /\ PushInit
    /\ [][PushNext]_vars
    /\ WF_vars(PushSelect)
    /\ WF_vars(Tick)

TypeOK ==
    /\ kind \in {"pull", "push"}
    /\ batchSize \in BatchSizes
    /\ eventSize \in EventSizes
    /\ ctxDerived \in BOOLEAN
    /\ Built => (ctxDerived /\ Len(slots) = batchSize /\ batchSize = BatchSize)
    /\ asyncTimerChan \in BOOLEAN
    /\ eof \in BOOLEAN
    /\ tickerC \in {0, 1}
    /\ pc \in {"new", "failed", "idle", "select", "pull", "wait"}
    /\ n \in 0..BatchSize
    /\ evtC \in Seq(PushEvent) /\ Len(evtC) <= ChanCap
    /\ lastResult.n \in 0..BatchSize
    /\ lastResult.cause \in Causes
    /\ owed \in Seq(Payloads)

\* ============================================================ claims
\* a step in which a NextBatch call returns
ReturnStep == pc' = "idle" /\ lastResult' # lastResult

\* what a call made after the latch returns
LatchedResult == [n |-> 0, err |-> ErrEOF, cause |-> "latched"]

\* a step in which the call in flight takes nothing from its producer and
\* writes no slot
ProducerUntouched ==
    /\ pc' = "idle"
    /\ slots' = slots
    /\ Len(evtC') >= Len(evtC)

\* C1: once a NextBatch call has returned ErrEOF, eof is set and stays set, and
\* every later call returns exactly (0, ErrEOF) without invoking the pull
\* function, receiving from the event channel or writing a slot.
C1_EofIsPermanent ==
    [][ /\ (eof => eof')
        /\ (ReturnStep /\ lastResult'.err = ErrEOF => eof')
        /\ (eofReturned =>
               /\ eof
               /\ ProducerUntouched
               /\ (ReturnStep => lastResult' = LatchedResult)) ]_vars

\* a call returned ErrEOF because the context was done, and a later call was
\* answered by the latch
C1_Witness ==
    /\ eofReturned
    /\ lastResult = LatchedResult
    /\ CtxDone

\* the error a producer step hands to NextBatch, read off the state before it
ProducerCauses == {"pull", "msg", "closed", "write"}

\* C2: a producer error other than ErrTimeout (from the pull function, carried
\* by a message, synthesized from the closure, or from the write) makes the
\* call return (slots filled so far, that error) and sets eof; every later call
\* returns (0, ErrEOF) and does not enter the producer.
C2_NonTimeoutErrorIsTerminal ==
    [][ /\ (ReturnStep /\ lastResult'.cause \in ProducerCauses
                /\ lastResult'.err # ErrTimeout =>
               /\ eof'
               /\ lastResult'.n = n
               /\ lastResult'.err # Nil
               /\ (lastResult'.cause = "msg" => lastResult'.err = Head(evtC).Err)
               /\ (lastResult'.cause = "closed" => lastResult'.err = ErrEOF))
        /\ (errReturned =>
               /\ ProducerUntouched
               /\ (ReturnStep => lastResult' = LatchedResult)) ]_vars

\* a call returned an error that is neither ErrTimeout nor ErrEOF, and a later
\* call returned (0, ErrEOF) although the context is live and the channel open
C2_Witness ==
    /\ errReturned
    /\ lastResult = LatchedResult
    /\ ~CtxDone
    /\ ~chanClosed

\* C3: with the lifetime context cancelled (by its owner or by Close), a call
\* that returns, whether it was in flight or made later, returns ErrEOF, and
\* with count 0 once eof is latched.  Left aside, to the claim's advantage: a
\* call ended by an error of its producer, and a call ended by a timeout that
\* elapsed while it ran.
C3_CancelReturnsEof ==
    [][ ( /\ ReturnStep
          /\ CtxDone
          /\ lastResult'.cause \notin ProducerCauses
          /\ (lastResult'.cause = "timer" => tickStale) )
        => lastResult'.err = ErrEOF ]_vars

FullResult == [n |-> BatchSize, err |-> Nil, cause |-> "full"]

C5_FastProducerFullBatch ==
    [][ ( /\ ReturnStep
          /\ ~eofReturned /\ ~errReturned /\ ~timeoutReturned
          /\ ~CtxDone
          /\ lastResult'.cause \notin ProducerCauses
          /\ (lastResult'.cause = "timer" => tickStale) )
        => lastResult' = FullResult ]_vars

\* C6: the tick that makes a call return ErrTimeout was never produced before
\* the Reset at the start of that call.
C6_FreshTimeoutBudget ==
    [][ ReturnStep /\ lastResult'.cause = "timer" => ~tickStale ]_vars

\* C7: a result (k, e) has 0 <= k <= BatchSize; e is nil exactly when the call
\* filled the whole batch, and then k = BatchSize; every other result, those
\* of the timer and of the cancellation among them, has k < BatchSize.
C7_ResultShape ==
    lastResult.cause # "none" =>
        /\ lastResult.n \in 0..BatchSize
        /\ (lastResult.err = Nil <=> lastResult.cause = "full")
        /\ (lastResult.err = Nil <=> lastResult.n = BatchSize)
        /\ (lastResult.err = Nil => Len(callLog) = BatchSize)
        /\ (lastResult.cause \in {"timer", "ctx", "latched"} =>
                lastResult.n < BatchSize)

\* the cancellation cut a batch one slot short of full
C7_Witness ==
    /\ lastResult = [n |-> BatchSize - 1, err |-> ErrEOF, cause |-> "ctx"]
    /\ Len(callLog) = BatchSize - 1

\* C8: a call that the timer ends after k events returns (k, ErrTimeout) with
\* k < BatchSize, the k events sit in slots 0..k-1 in the order they were
\* produced, and eof is not set.
C8_PartialBatchFlush ==
    lastResult.cause = "timer" =>
        /\ lastResult.err = ErrTimeout
        /\ lastResult.n = Len(callLog)
        /\ lastResult.n < BatchSize
        /\ \A i \in 1..Len(callLog) : slots[i].data = callLog[i]
        /\ ~eof

\* the push path flushed two different events, in slots 0 and 1, on a tick
C8_Witness ==
    /\ kind = "push"
    /\ lastResult = [n |-> 2, err |-> ErrTimeout, cause |-> "timer"]
    /\ callLog = <<2, 1>>
    /\ slots[1].data = 2 /\ slots[2].data = 1

\* C9: a call that returns while the event channel is closed and drained
\* returns (slots filled so far, ErrEOF) and sets eof; with no slot filled
\* that is (0, ErrEOF).  Left aside, to the claim's advantage: a timeout that
\* elapsed while the call ran.
C9_ClosedChannelReturnsEof ==
    [][ ( /\ ReturnStep
          /\ kind = "push" /\ pc = "wait"
          /\ chanClosed /\ evtC = <<>>
          /\ (lastResult'.cause = "timer" => tickStale) )
        => /\ lastResult'.err = ErrEOF
           /\ lastResult'.n = n
           /\ eof' ]_vars

\* a step of the push path that receives a message carrying an error
MsgErrReceived ==
    /\ kind = "push" /\ pc = "wait"
    /\ evtC # <<>>
    /\ Head(evtC).Err # Nil
    /\ evtC' = Tail(evtC)

WriteFailed ==
    /\ kind = "push" /\ pc = "wait"
    /\ evtC # <<>>
    /\ Head(evtC).Err = Nil
    /\ evtC' = Tail(evtC)
    /\ callLog' = callLog

C12_CloseCancelsThenCallsBack ==
    [][ /\ (shutdownCalled' /\ ~shutdownCalled) => (cancelled /\ CtxDone)
        /\ closed' => (cancelled' /\ shutdownCalled' /\ CtxDone')
        /\ (userCtxDone' /\ ~userCtxDone) => CtxDone'
        /\ CtxDone => CtxDone' ]_vars

C12_Witness == closed /\ cancelled /\ shutdownCalled /\ ~userCtxDone

\* a received message that carries no error is written whole to its slot
MsgPlaced ==
    /\ kind = "push" /\ pc = "wait"
    /\ evtC # <<>>
    /\ Head(evtC).Err = Nil
    /\ evtC' = Tail(evtC)
    /\ callLog' = Append(callLog, Head(evtC).Data)

\* C13: on the push path the timestamp of a filled slot is the maximum unsigned
\* 64-bit value when the message's Timestamp is the zero time, and otherwise the
\* message's Timestamp in nanoseconds since the epoch (as uint64); a slot's
\* timestamp changes only when a message is placed in it, and that message is
\* counted in n.
C13_SlotTimestamp ==
    [][ /\ MsgPlaced =>
              /\ slots'[n + 1].ts = IF Head(evtC).Timestamp.zero
                                    THEN 2^TsWidth - 1
                                    ELSE Head(evtC).Timestamp.nano % (2^TsWidth)
              /\ IF pc' = "idle" THEN lastResult'.n = n + 1 ELSE n' = n + 1
        /\ \A i \in DOMAIN slots :
              (kind = "push" /\ slots'[i].ts # slots[i].ts) => (MsgPlaced /\ i = n + 1) ]_vars

C13_Witness ==
    /\ kind = "push"
    /\ lastResult = [n |-> 2, err |-> ErrTimeout, cause |-> "timer"]
    /\ slots[1] = [data |-> 1, ts |-> MaxUint64]
    /\ slots[2] = [data |-> 2, ts |-> 2]
    /\ slots[3] = EmptySlot

\* C14: when the allocator of the batch rejects the configured sizes, the
\* constructor returns the error and no instance: no ticker was started, no
\* derived context was created, the shutdown callback was not invoked, and
\* nothing of that happens later.  With sizes the allocator accepts, the
\* constructor returns an instance with its ticker armed and its context derived.
C14_FailedConstruction ==
    [][ /\ (pc = "new" /\ pc' # "new") =>
              IF NewEventWritersFails(batchSize, eventSize)
              THEN pc' = "failed"
              ELSE pc' = "idle" /\ tickerRunning' /\ ctxDerived'
        /\ pc = "failed" => pc' = "failed"
        /\ pc' = "failed" =>
              /\ ~tickerRunning' /\ tickerC' = 0
              /\ ~ctxDerived' /\ ~cancelled'
              /\ ~shutdownCalled' /\ ~closed'
              /\ slots' = <<>>
              /\ lastResult' = NoResult ]_vars

C14_Witness ==
    /\ pc = "failed"
    /\ batchSize = 0
    /\ eventSize > 0
    /\ userCtxDone

\* the non-blocking check of the pull path is left with a tick pending and
\* the context done
BothReadyAtCheck ==
    /\ kind = "pull" /\ pc = "select" /\ pc' # "select"
    /\ tickerC = 1
    /\ CtxDone

\* C15 as stated: in the check before each pull, when the timer has fired and
\* the context is done too, the timer takes priority: the call returns
\* (n, timeout) and eof is not latched; the check returns end-of-stream only
\* when the timer has not fired.  (Stated for a tick of the current call, so
\* that a tick left over from before the call does not count as "fired".)
C15_TimerHasPriority ==
    [][ /\ (BothReadyAtCheck /\ ~tickStale) => (lastResult'.err = ErrTimeout /\ ~eof')
        /\ (kind = "pull" /\ pc = "select" /\ ReturnStep /\ lastResult'.err = ErrEOF)
              => (tickerC = 0 \/ tickStale) ]_vars

\* C15 amended: in the check before each pull, when the timer has fired and the
\* context is done too, either case may be taken: the call returns at that check
\* with the slots filled so far, either (n, timeout) with the tick consumed and
\* eof untouched, or (n, end-of-stream) with eof latched and the tick left
\* pending.  With only one of the two ready, that one is taken.
C15_EitherCaseAtCheck ==
    [][ (kind = "pull" /\ pc = "select" /\ pc' # "select" /\ (tickerC = 1 \/ CtxDone)) =>
            /\ ReturnStep
            /\ lastResult'.n = n
            /\ \/ /\ lastResult'.err = ErrTimeout
                  /\ tickerC = 1 /\ tickerC' = 0
                  /\ eof' = eof
               \/ /\ lastResult'.err = ErrEOF
                  /\ CtxDone
                  /\ tickerC' = tickerC
                  /\ eof' ]_vars

\* end-of-stream was returned by a check that had a tick pending: the tick is
\* still there, and it is older than the call
C15_Witness ==
    /\ kind = "pull"
    /\ lastResult = [n |-> 0, err |-> ErrEOF, cause |-> "ctx"]
    /\ tickerC = 1
    /\ tickStale
    /\ eof

\* C16: on the pull path the pull function is invoked only from a check that
\* found no tick pending and the context not done; a check reached with a tick
\* pending or the context done ends the call without another invocation; and a
\* timeout or a cancellation that occurs during the call is still there at the
\* next check, so that at most one invocation follows it.
C16_PullOnlyAfterCleanCheck ==
    [][ kind = "pull" =>
          /\ (pc' = "pull" /\ pc # "pull") =>
                (pc = "select" /\ tickerC = 0 /\ ~CtxDone /\ n' = n)
          /\ (pc = "select" /\ pc' # "select" /\ (tickerC = 1 \/ CtxDone)) =>
                (pc' = "idle" /\ lastResult'.n = n)
          /\ (pc \in {"select", "pull"} /\ (tickerC = 1 \/ CtxDone)) =>
                (pc' = "idle" \/ (pc' = "select" /\ (tickerC' = 1 \/ CtxDone'))
                              \/ (pc' = "pull" /\ pc = "pull")) ]_vars

\* an invocation is in flight, started from a clean check, and both the timeout
\* and the cancellation have occurred since
C16_Witness ==
    /\ kind = "pull" /\ pc = "pull"
    /\ n = 1
    /\ tickerC = 1 /\ ~tickStale
    /\ CtxDone

\* the first k slots hold the events the call placed, in the order it placed them
PlacedInOrder(k, sl, log) ==
    /\ Len(log) = k
    /\ \A i \in 1..k : sl[i].data = log[i]

\* C17: in both paths the slots are written in strict index order: the i-th
\* event a call obtains lands in slot i (counting from 0), a step of the call
\* touches no slot but the one at index n, n only grows during the call, the
\* returned count is the number of events placed, and so no slot with an index
\* greater than the returned count is touched.
C17_SlotsInIndexOrder ==
    [][ /\ \A i \in DOMAIN slots :
              slots'[i] # slots[i] => (pc \in {"pull", "wait"} /\ i = n + 1)
        /\ callLog' # callLog =>
              \/ pc = "idle" /\ callLog' = <<>>
              \/ /\ pc \in {"pull", "wait"}
                 /\ callLog' = Append(callLog, slots'[n + 1].data)
                 /\ slots'[n + 1].data \in Payloads
        /\ pc' \in {"select", "pull", "wait"} =>
              (n' >= n /\ PlacedInOrder(n', slots', callLog'))
        /\ ReturnStep =>
              (lastResult'.n >= n /\ PlacedInOrder(lastResult'.n, slots', callLog')) ]_vars

C17_Witness ==
    /\ kind = "pull"
    /\ lastResult = FullResult
    /\ PlacedInOrder(BatchSize, slots, callLog)
    /\ callLog[1] = 1
    /\ callLog[2] = 2

\* the payloads of the messages of q that carry no error, in order
OkData(q) ==
    LET ok == SelectSeq(q, LAMBDA m : m.Err = Nil)
    IN [i \in 1..Len(ok) |-> ok[i].Data]

\* the events a call in flight has placed and not yet returned
InFlight(p, log) == IF p = "wait" THEN log ELSE <<>>

C20_TickerStaysStopped == closed => ~tickerRunning

\* C19: every call of NextBatch on a push instance returns in the end, even
\* when the sender never sends and never closes the channel, as long as the
\* armed ticker keeps firing or the context gets cancelled; that includes a call
\* blocked in the select while Close() runs.
C19_PushCallReturns == (pc = "wait") ~> (pc = "idle")

\* a call is blocked in the select with nothing to receive, Close() has run to
\* its end meanwhile and the ticker is stopped
C19_Witness ==
    /\ kind = "push" /\ pc = "wait"
    /\ closed /\ ~tickerRunning /\ tickerC = 0
    /\ evtC = <<>> /\ ~chanClosed
    /\ ~userCtxDone

====
